---- MODULE Spec2Model ----
(***************************************************************************)
(* mcp-state-sync: the policy resolution engine (glob matching, first-     *)
(* match-wins resolution, resolution cache) and the annotation pipeline    *)
(* of the attached server (tools/list and tools/call handlers).            *)
(*                                                                         *)
(* Strings are sequences of one-character strings, so that split('.') and  *)
(* join(', ') are computed and not assumed.  A fixed literal of the source *)
(* (the text around a template's holes) is one element of the sequence.    *)
(***************************************************************************)
EXTENDS Integers, Sequences, FiniteSets, TLC

\* ------------------------------------------------------------------ bounds

\* Longest policies array of an engine that is used directly.
MaxRules == 2

\* Requests (tools/list and tools/call) one attached server receives.
MaxRequests == 2

\* Longest policies array a constructor is called with.
MaxRawRules == 2

\* Longest pattern a rule is declared with when the grammar is checked.
MaxPatternLen == 4

\* Most dot-segments of a pattern or a name matchGlob is called with.
MaxSegments == 3

\* Most pieces of the description decorateDescription is called with.
MaxParts == 3

\* ----------------------------------------------------------------- strings

\* 'a.b', 'a.c', 'b': the tool names requests and the upstream use.
NameAB == <<"a", ".", "b">>
NameAC == <<"a", ".", "c">>
NameB == <<"b">>

ToolNames == {NameAB, NameAC, NameB}

\* 'a.b', 'a.*', '**': the glob patterns rules are declared with.
PatAB == <<"a", ".", "b">>
PatAStar == <<"a", ".", "*">>
PatGlobStar == <<"*", "*">>

MatchPatterns == {PatAB, PatAStar, PatGlobStar}

\* String.prototype.split('.') : the segments between dots; '' gives [''].
RECURSIVE SplitFrom(_, _, _)
SplitFrom(s, i, cur) ==
    IF i > Len(s) THEN <<cur>>
    ELSE IF s[i] = "." THEN <<cur>> \o SplitFrom(s, i + 1, <<>>)
    ELSE SplitFrom(s, i + 1, Append(cur, s[i]))

Split(s) == SplitFrom(s, 1, <<>>)

\* Array.prototype.join(sep): the elements with sep between neighbours.
RECURSIVE JoinFrom(_, _, _)
JoinFrom(items, i, sep) ==
    IF i > Len(items) THEN <<>>
    ELSE IF i = Len(items) THEN items[i]
    ELSE items[i] \o sep \o JoinFrom(items, i + 1, sep)

Join(items, sep) == JoinFrom(items, 1, sep)

\* -------------------------------------------------------------- GlobMatcher

\* matchSegments gone wrong: an exhausted pattern matches whatever is left of
\* the name.
RECURSIVE matchSegmentsPrefix(_, _, _, _)
matchSegmentsPrefix(pp, pi, np, ni) ==
    IF pi = Len(pp) + 1 THEN TRUE
    ELSE IF ni = Len(np) + 1 THEN \A i \in pi..Len(pp) : pp[i] = <<"*", "*">>
    ELSE IF pp[pi] = <<"*", "*">>
        THEN matchSegmentsPrefix(pp, pi + 1, np, ni) \/ matchSegmentsPrefix(pp, pi, np, ni + 1)
    ELSE IF pp[pi] = <<"*">> \/ pp[pi] = np[ni]
        THEN matchSegmentsPrefix(pp, pi + 1, np, ni + 1)
    ELSE FALSE

\* matchSegments gone wrong: an exhausted name matches no pattern segment, so
\* '**' needs at least one segment when it comes last.
RECURSIVE matchSegmentsOneOrMore(_, _, _, _)
matchSegmentsOneOrMore(pp, pi, np, ni) ==
    IF pi = Len(pp) + 1 /\ ni = Len(np) + 1 THEN TRUE
    ELSE IF pi = Len(pp) + 1 THEN FALSE
    ELSE IF ni = Len(np) + 1 THEN FALSE
    ELSE IF pp[pi] = <<"*", "*">>
        THEN matchSegmentsOneOrMore(pp, pi + 1, np, ni)
             \/ matchSegmentsOneOrMore(pp, pi, np, ni + 1)
             \/ matchSegmentsOneOrMore(pp, pi + 1, np, ni + 1)
    ELSE IF pp[pi] = <<"*">> \/ pp[pi] = np[ni]
        THEN matchSegmentsOneOrMore(pp, pi + 1, np, ni + 1)
    ELSE FALSE

\* matchSegments gone wrong: '*' may also consume a second segment.
RECURSIVE matchSegmentsStarTwo(_, _, _, _)
matchSegmentsStarTwo(pp, pi, np, ni) ==
    IF pi = Len(pp) + 1 /\ ni = Len(np) + 1 THEN TRUE
    ELSE IF pi = Len(pp) + 1 THEN FALSE
    ELSE IF ni = Len(np) + 1 THEN \A i \in pi..Len(pp) : pp[i] = <<"*", "*">>
    ELSE IF pp[pi] = <<"*", "*">>
        THEN matchSegmentsStarTwo(pp, pi + 1, np, ni) \/ matchSegmentsStarTwo(pp, pi, np, ni + 1)
    ELSE IF pp[pi] = <<"*">>
        THEN matchSegmentsStarTwo(pp, pi + 1, np, ni + 1)
             \/ (ni + 1 <= Len(np) /\ matchSegmentsStarTwo(pp, pi + 1, np, ni + 2))
    ELSE IF pp[pi] = np[ni]
        THEN matchSegmentsStarTwo(pp, pi + 1, np, ni + 1)
    ELSE FALSE

\* matchSegments(pp, pi, np, ni), with 1-based indices: pi = Len(pp) + 1 is
\* the source's pi === pp.length.
RECURSIVE matchSegments(_, _, _, _)
matchSegments(pp, pi, np, ni) ==
    IF pi = Len(pp) + 1 /\ ni = Len(np) + 1 THEN TRUE
    ELSE IF pi = Len(pp) + 1 THEN FALSE
    ELSE IF ni = Len(np) + 1 THEN \A i \in pi..Len(pp) : pp[i] = <<"*", "*">>
    ELSE IF pp[pi] = <<"*", "*">>
        THEN matchSegments(pp, pi + 1, np, ni) \/ matchSegments(pp, pi, np, ni + 1)
    ELSE IF pp[pi] = <<"*">> \/ pp[pi] = np[ni]
        THEN matchSegments(pp, pi + 1, np, ni + 1)
    ELSE FALSE

matchGlob(pattern, name) == matchSegments(Split(pattern), 1, Split(name), 1)

\* ------------------------------------------------------------ configuration

\* CacheDirective | undefined: VALID_DIRECTIVES, and the absent field.
NoDirective == "undefined"
Directives == {"no-store", "immutable"}

\* SyncPolicy.invalidates: undefined, or an array of pattern strings.
NoList == [present |-> FALSE, items |-> <<>>]
List(items) == [present |-> TRUE, items |-> items]

InvalidatesLists == {NoList, List(<<>>), List(<<PatAStar, NameB>>)}

\* The rules a configuration is written from: every pattern with every
\* combination of directive and invalidation list validation accepts.
Rules ==
    [match : MatchPatterns,
     cacheControl : {NoDirective, "no-store"},
     invalidates : InvalidatesLists]

SeqsUpTo(S, n) == UNION {[1..k -> S] : k \in 0..n}

\* ------------------------------------------------------------- PolicyEngine

VARIABLES
    policies,             \* PolicyEngine.policies: the frozen copy of the rules
    defaultCacheControl,  \* PolicyEngine.defaultCacheControl
    cache,                \* PolicyEngine.cache: Map<string, ResolvedPolicy | null>
    allocs,               \* the ResolvedPolicy objects resolveUncached created, per name
    scans,                \* per name, how often the rules were scanned for it
    ctor                  \* the constructor call new PolicyEngine(policies, defaults)

\* The engine's mutable state as one value, threaded through a handler.
Engine == [cache |-> cache, allocs |-> allocs, scans |-> scans]

\* A value of the cache map, and of resolve: Map.get's undefined for a missing
\* key, null, or a reference to the k-th ResolvedPolicy object created for name.
Undefined == [kind |-> "undefined", name |-> <<>>, k |-> 0]
Null == [kind |-> "null", name |-> <<>>, k |-> 0]
Ref(name, k) == [kind |-> "ref", name |-> name, k |-> k]

\* What resolveUncached computes: null, or a new object
\* Object.freeze({ cacheControl, invalidates }) whose list, if it has one, is
\* the frozen copy Object.freeze([...policy.invalidates]).  frozen and
\* listFrozen say whether the object and its list reject writes.
NullPolicy == [isNull |-> TRUE, cacheControl |-> NoDirective, invalidates |-> NoList]

\* resolveUncached gone wrong: the object and the list are returned unfrozen.
PolicyUnfrozen(cc, inv) ==
    [isNull |-> FALSE, cacheControl |-> cc, invalidates |-> inv,
     frozen |-> FALSE, listFrozen |-> FALSE]

Policy(cc, inv) ==
    [isNull |-> FALSE, cacheControl |-> cc, invalidates |-> inv,
     frozen |-> TRUE, listFrozen |-> TRUE]

\* The fields of a policy a reader sees: cacheControl and invalidates.
Fields(p) ==
    [isNull |-> p.isNull, cacheControl |-> p.cacheControl, invalidates |-> p.invalidates]

\* resolveUncached gone wrong: a name no rule matches resolves to null even
\* when a default is configured.
RECURSIVE scanFromNoFallback(_, _)
scanFromNoFallback(i, toolName) ==
    IF i > Len(policies)
    THEN NullPolicy
    ELSE IF matchGlob(policies[i].match, toolName)
    THEN LET policy == policies[i]
             cacheControl ==
                 IF policy.cacheControl # NoDirective
                 THEN policy.cacheControl
                 ELSE defaultCacheControl
             invalidates ==
                 IF policy.invalidates.present /\ Len(policy.invalidates.items) > 0
                 THEN List(policy.invalidates.items)
                 ELSE NoList
         IN  IF cacheControl = NoDirective /\ ~invalidates.present
             THEN NullPolicy
             ELSE Policy(cacheControl, invalidates)
    ELSE scanFromNoFallback(i + 1, toolName)

\* The for loop of resolveUncached from rule i on, then the default fallback.
RECURSIVE scanFrom(_, _)
scanFrom(i, toolName) ==
    IF i > Len(policies)
    THEN IF defaultCacheControl # NoDirective
         THEN Policy(defaultCacheControl, NoList)
         ELSE NullPolicy
    ELSE IF matchGlob(policies[i].match, toolName)
    THEN LET policy == policies[i]
             cacheControl ==
                 IF policy.cacheControl # NoDirective
                 THEN policy.cacheControl
                 ELSE defaultCacheControl
             invalidates ==
                 IF policy.invalidates.present /\ Len(policy.invalidates.items) > 0
                 THEN List(policy.invalidates.items)
                 ELSE NoList
         IN  IF cacheControl = NoDirective /\ ~invalidates.present
             THEN NullPolicy
             ELSE Policy(cacheControl, invalidates)
    ELSE scanFrom(i + 1, toolName)

\* resolveUncached gone wrong: a matching rule that yields nothing does not end
\* the scan (it looks on for a rule that does).
RECURSIVE scanFromSkipNull(_, _)
scanFromSkipNull(i, toolName) ==
    IF i > Len(policies)
    THEN IF defaultCacheControl # NoDirective
         THEN Policy(defaultCacheControl, NoList)
         ELSE NullPolicy
    ELSE IF matchGlob(policies[i].match, toolName)
    THEN LET policy == policies[i]
             cacheControl ==
                 IF policy.cacheControl # NoDirective
                 THEN policy.cacheControl
                 ELSE defaultCacheControl
             invalidates ==
                 IF policy.invalidates.present /\ Len(policy.invalidates.items) > 0
                 THEN List(policy.invalidates.items)
                 ELSE NoList
         IN  IF cacheControl = NoDirective /\ ~invalidates.present
             THEN scanFromSkipNull(i + 1, toolName)
             ELSE Policy(cacheControl, invalidates)
    ELSE scanFromSkipNull(i + 1, toolName)

resolveUncachedSkipNull(toolName) == scanFromSkipNull(1, toolName)

\* resolveUncached gone wrong: a matching rule's directive is taken as it is,
\* without the default behind it.
RECURSIVE scanFromNoDefault(_, _)
scanFromNoDefault(i, toolName) ==
    IF i > Len(policies)
    THEN IF defaultCacheControl # NoDirective
         THEN Policy(defaultCacheControl, NoList)
         ELSE NullPolicy
    ELSE IF matchGlob(policies[i].match, toolName)
    THEN LET policy == policies[i]
             cacheControl == policy.cacheControl
             invalidates ==
                 IF policy.invalidates.present /\ Len(policy.invalidates.items) > 0
                 THEN List(policy.invalidates.items)
                 ELSE NoList
         IN  IF cacheControl = NoDirective /\ ~invalidates.present
             THEN NullPolicy
             ELSE Policy(cacheControl, invalidates)
    ELSE scanFromNoDefault(i + 1, toolName)

resolveUncachedNoDefault(toolName) == scanFromNoDefault(1, toolName)

\* resolveUncached gone wrong: the rule's list is copied whenever it is there
\* (policy.invalidates ? ... instead of policy.invalidates?.length ? ...).
RECURSIVE scanFromKeepEmpty(_, _)
scanFromKeepEmpty(i, toolName) ==
    IF i > Len(policies)
    THEN IF defaultCacheControl # NoDirective
         THEN Policy(defaultCacheControl, NoList)
         ELSE NullPolicy
    ELSE IF matchGlob(policies[i].match, toolName)
    THEN LET policy == policies[i]
             cacheControl ==
                 IF policy.cacheControl # NoDirective
                 THEN policy.cacheControl
                 ELSE defaultCacheControl
             invalidates ==
                 IF policy.invalidates.present
                 THEN List(policy.invalidates.items)
                 ELSE NoList
         IN  IF cacheControl = NoDirective /\ ~invalidates.present
             THEN NullPolicy
             ELSE Policy(cacheControl, invalidates)
    ELSE scanFromKeepEmpty(i + 1, toolName)

resolveUncachedKeepEmpty(toolName) == scanFromKeepEmpty(1, toolName)

resolveUncached(toolName) == scanFrom(1, toolName)

\* What a cache miss does: scan, store under key, return.
Miss(e, toolName, key, kept) ==
    LET result == resolveUncached(toolName)
        value == IF result.isNull
                 THEN Null
                 ELSE Ref(toolName, Len(e.allocs[toolName]) + 1)
    IN  [value |-> value,
         engine |->
             [cache |-> [kept EXCEPT ![key] = value],
              allocs |-> IF result.isNull
                         THEN e.allocs
                         ELSE [e.allocs EXCEPT ![toolName] = Append(@, result)],
              scans |-> [e.scans EXCEPT ![toolName] = @ + 1]]]

\* resolve gone wrong: if (cached) instead of if (cached !== undefined), so a
\* cached null counts as a miss.
resolveTruthy(e, toolName) ==
    LET cached == e.cache[toolName] IN
    IF cached.kind = "ref"
    THEN [value |-> cached, engine |-> e]
    ELSE Miss(e, toolName, toolName, e.cache)

\* resolve gone wrong: the cache is keyed by the name's first segment, so
\* 'a.b' and 'a.c' share an entry.
resolveSharedKey(e, toolName) ==
    LET key == IF toolName = NameAC THEN NameAB ELSE toolName
        cached == e.cache[key]
    IN  IF cached # Undefined
        THEN [value |-> cached, engine |-> e]
        ELSE Miss(e, toolName, key, e.cache)

\* resolve gone wrong: the cache holds one entry, a miss evicts the others.
resolveEvicting(e, toolName) ==
    LET cached == e.cache[toolName] IN
    IF cached # Undefined
    THEN [value |-> cached, engine |-> e]
    ELSE Miss(e, toolName, toolName, [n \in DOMAIN e.cache |-> Undefined])

\* resolve gone wrong: a cache hit returns null, whatever the entry holds.
resolveHitNull(e, toolName) ==
    LET cached == e.cache[toolName] IN
    IF cached # Undefined
    THEN [value |-> Null, engine |-> e]
    ELSE Miss(e, toolName, toolName, e.cache)

\* resolve(toolName) on engine state e: the returned value and the state after.
resolve(e, toolName) ==
    LET cached == e.cache[toolName] IN
    IF cached # Undefined
    THEN [value |-> cached, engine |-> e]
    ELSE LET result == resolveUncached(toolName)
             value == IF result.isNull
                      THEN Null
                      ELSE Ref(toolName, Len(e.allocs[toolName]) + 1)
         IN  [value |-> value,
              engine |->
                  [cache |-> [e.cache EXCEPT ![toolName] = value],
                   allocs |-> IF result.isNull
                              THEN e.allocs
                              ELSE [e.allocs EXCEPT ![toolName] = Append(@, result)],
                   scans |-> [e.scans EXCEPT ![toolName] = @ + 1]]]

\* The fields behind a value resolve returned (null stays null).
Deref(e, value) ==
    IF value.kind = "ref" THEN Fields(e.allocs[value.name][value.k]) ELSE NullPolicy

\* The constructor returned: the engine exists.
Constructed == [state |-> "constructed"]

\* new PolicyEngine(policies, defaults) with a configuration of the set
\* configs: the rules are copied and frozen, the cache is empty.
InitEngine(configs) ==
    /\ policies \in configs
    /\ defaultCacheControl \in Directives \cup {NoDirective}
    /\ cache = [n \in ToolNames |-> Undefined]
    /\ allocs = [n \in ToolNames |-> <<>>]
    /\ scans = [n \in ToolNames |-> 0]
    /\ ctor = Constructed

\* ----------------------------------------------------- DescriptionDecorator

\* The characters \s and \w of CACHE_CONTROL_PATTERN stand for.
IsSpace(c) == c \in {" ", "\t", "\n"}

WordChars ==
    {"a", "b", "c", "d", "e", "f", "g", "h", "i", "j", "k", "l", "m",
     "n", "o", "p", "q", "r", "s", "t", "u", "v", "w", "x", "y", "z",
     "A", "B", "C", "D", "E", "F", "G", "H", "I", "J", "K", "L", "M",
     "N", "O", "P", "Q", "R", "S", "T", "U", "V", "W", "X", "Y", "Z",
     "0", "1", "2", "3", "4", "5", "6", "7", "8", "9", "_"}

IsWord(c) == c \in WordChars

\* '[Cache-Control:', the literal of the pattern and of the suffix.
CacheControlLiteral ==
    <<"[", "C", "a", "c", "h", "e", "-", "C", "o", "n", "t", "r", "o", "l", ":">>

DirectiveText(d) ==
    IF d = "no-store" THEN <<"n", "o", "-", "s", "t", "o", "r", "e">>
    ELSE IF d = "immutable" THEN <<"i", "m", "m", "u", "t", "a", "b", "l", "e">>
    ELSE <<"u", "n", "d", "e", "f", "i", "n", "e", "d">>

\* The first position from i on that holds no whitespace (greedy \s*).
RECURSIVE SkipSpaces(_, _)
SkipSpaces(s, i) ==
    IF i <= Len(s) /\ IsSpace(s[i]) THEN SkipSpaces(s, i + 1) ELSE i

\* The first position from i on that holds ']' (greedy [^\]]*), or Len(s) + 1.
RECURSIVE SkipToBracket(_, _)
SkipToBracket(s, i) ==
    IF i <= Len(s) /\ s[i] # "]" THEN SkipToBracket(s, i + 1) ELSE i

HasLiteralAt(s, i, lit) ==
    /\ i + Len(lit) - 1 <= Len(s)
    /\ SubSeq(s, i, i + Len(lit) - 1) = lit

\* /\s*\[Cache-Control:\s*\w[^\]]*\]$/ matches s from position i to its end.
PatternMatchesAt(s, i) ==
    LET j == SkipSpaces(s, i) IN
    /\ HasLiteralAt(s, j, CacheControlLiteral)
    /\ LET k == SkipSpaces(s, j + Len(CacheControlLiteral)) IN
       /\ k <= Len(s)
       /\ IsWord(s[k])
       /\ SkipToBracket(s, k + 1) = Len(s)

\* description.replace(CACHE_CONTROL_PATTERN, ''): the leftmost match is cut.
StripCacheControl(s) ==
    LET starts == {i \in 1..(Len(s) + 1) : PatternMatchesAt(s, i)} IN
    IF starts = {} THEN s
    ELSE LET first == CHOOSE i \in starts : \A j \in starts : i <= j
         IN  SubSeq(s, 1, first - 1)

\* McpToolDef.description: undefined, or a string.
NoDescription == [present |-> FALSE, text |-> <<>>]
Description(text) == [present |-> TRUE, text |-> text]

\* An McpToolDef object: id is the object's identity, schema stands for the
\* fields decoration does not read (inputSchema, annotations).
ToolDef(id, name, description, schema) ==
    [id |-> id, name |-> name, description |-> description, schema |-> schema]

\* decorateDescription gone wrong: the suffix is appended to the description
\* as it is, nothing is stripped.
decorateDescriptionAppend(tool, policy, fresh) ==
    IF policy.isNull \/ policy.cacheControl = NoDirective THEN tool
    ELSE LET suffix == <<" ">> \o CacheControlLiteral \o <<" ">>
                       \o DirectiveText(policy.cacheControl) \o <<"]">>
         IN  [tool EXCEPT !.id = fresh,
                          !.description = Description(tool.description.text \o suffix)]

\* decorateDescription gone wrong: without a directive it returns a copy.
decorateDescriptionCopy(tool, policy, fresh) ==
    IF policy.isNull \/ policy.cacheControl = NoDirective THEN [tool EXCEPT !.id = fresh]
    ELSE LET suffix == <<" ">> \o CacheControlLiteral \o <<" ">>
                       \o DirectiveText(policy.cacheControl) \o <<"]">>
             base == StripCacheControl(tool.description.text)
         IN  [tool EXCEPT !.id = fresh, !.description = Description(base \o suffix)]

\* decorateDescription(tool, policy), policy being the fields of the resolved
\* policy; fresh is the identity of the copy it makes.
decorateDescription(tool, policy, fresh) ==
    IF policy.isNull \/ policy.cacheControl = NoDirective THEN tool
    ELSE LET suffix == <<" ">> \o CacheControlLiteral \o <<" ">>
                       \o DirectiveText(policy.cacheControl) \o <<"]">>
             base == StripCacheControl(tool.description.text)
         IN  [tool EXCEPT !.id = fresh, !.description = Description(base \o suffix)]

\* -------------------------------------------- CausalEngine, ResponseDecorator

\* McpCallResult.isError: true, false, or the field is missing.
IsErrorValues == {"true", "false", "undefined"}

\* result.isError ?? false
IsErrorOrFalse(isError) == isError = "true"

\* resolveInvalidations gone wrong: the isError guard is missing.
resolveInvalidationsNoGuard(policy, isError) ==
    IF ~policy.isNull /\ policy.invalidates.present
    THEN policy.invalidates.items
    ELSE <<>>

\* resolveInvalidations(policy, isError): policy?.invalidates ?? [].
resolveInvalidations(policy, isError) ==
    IF isError THEN <<>>
    ELSE IF ~policy.isNull /\ policy.invalidates.present
    THEN policy.invalidates.items
    ELSE <<>>

\* The text around the holes of the notice's template literal; the dash of
\* NoticeMid is the source's U+2014.
NoticePrefix == <<"[System: Cache invalidated for ">>
NoticeMid == <<" -- caused by ">>
NoticeSuffix == <<"]">>

TextBlock(text) == [type |-> "text", text |-> text]

\* Identities of call result objects and of their content arrays: the one the
\* upstream made for request r, and the one decorateResponse made for it.
NoId == [req |-> 0, site |-> "none"]
UpstreamId(r) == [req |-> r, site |-> "upstream"]
DecoratedId(r) == [req |-> r, site |-> "decorated"]

NoResult == [live |-> FALSE, content |-> NoId, isError |-> "undefined"]
NoArray == [live |-> FALSE, blocks |-> <<>>]

\* decorateResponse gone wrong: the block is pushed behind the content.
decorateResponseAppend(h, result, patterns, causedBy, fresh) ==
    LET domains == Join(patterns, <<",", " ">>)
        systemBlock ==
            TextBlock(NoticePrefix \o domains \o NoticeMid \o causedBy \o NoticeSuffix)
        input == h.results[result]
    IN  [value |-> fresh,
         heap |->
             [results |-> [h.results EXCEPT ![fresh] =
                              [input EXCEPT !.content = fresh]],
              arrays |-> [h.arrays EXCEPT ![fresh] =
                             [live |-> TRUE,
                              blocks |-> h.arrays[input.content].blocks \o <<systemBlock>>]]]]

\* decorateResponse gone wrong: result.content.unshift(systemBlock), and the
\* new result shares the input's array.
decorateResponseInPlace(h, result, patterns, causedBy, fresh) ==
    LET domains == Join(patterns, <<",", " ">>)
        systemBlock ==
            TextBlock(NoticePrefix \o domains \o NoticeMid \o causedBy \o NoticeSuffix)
        input == h.results[result]
    IN  [value |-> fresh,
         heap |->
             [results |-> [h.results EXCEPT ![fresh] = input],
              arrays |-> [h.arrays EXCEPT ![input.content].blocks = <<systemBlock>> \o @]]]

\* decorateResponse(result, patterns, causedBy) on the heap h: result is the
\* identity of the input, fresh the identity of the objects it creates.
decorateResponse(h, result, patterns, causedBy, fresh) ==
    LET domains == Join(patterns, <<",", " ">>)
        systemBlock ==
            TextBlock(NoticePrefix \o domains \o NoticeMid \o causedBy \o NoticeSuffix)
        input == h.results[result]
    IN  [value |-> fresh,
         heap |->
             [results |-> [h.results EXCEPT ![fresh] =
                              [input EXCEPT !.content = fresh]],
              arrays |-> [h.arrays EXCEPT ![fresh] =
                             [live |-> TRUE,
                              blocks |-> <<systemBlock>> \o h.arrays[input.content].blocks]]]]

\* ------------------------------------------------------------ ServerWrapper

VARIABLES
    toolDefs,   \* the McpToolDef objects upstream.listTools() returns
    requests,   \* the requests of the attached server, by arrival
    results,    \* the McpCallResult objects, by identity
    arrays,     \* the content arrays of the call results, by identity
    ret,        \* what the last direct call of resolve returned
    firstRet,   \* per name, what the first direct call of resolve returned
    lastDecorate,  \* the last direct call of decorateResponse
    attempts,   \* per name, the caller's attempts to change the returned policy
    probe       \* the last direct call of a pure function, with its result

\* What the server's handlers and decorateResponse never touch.
auxVars == <<attempts, ctor, probe>>

vars ==
    <<policies, defaultCacheControl, cache, allocs, scans,
      toolDefs, requests, results, arrays, ret, firstRet, lastDecorate,
      attempts, ctor, probe>>

Requests == 1..MaxRequests

\* Identities of tool descriptors: upstream's i-th (req = 0), and the copy
\* decorateDescription made of it for list request r.
ToolId(r, i) == [req |-> r, index |-> i]

\* The upstream's tools: 'a.b' "Get.", 'a.c' without a description, and 'b'
\* whose description already ends with an annotation.
UpstreamTools ==
    <<ToolDef(ToolId(0, 1), NameAB, Description(<<"G", "e", "t", ".">>), "schema1"),
      ToolDef(ToolId(0, 2), NameAC, NoDescription, "schema2"),
      ToolDef(ToolId(0, 3), NameB,
              Description(<<"X", " ">> \o CacheControlLiteral \o <<" ">>
                          \o DirectiveText("immutable") \o <<"]">>),
              "schema3")>>

\* The content blocks an upstream result holds.
BlockOk == TextBlock(<<"o", "k">>)
BlockImage == [type |-> "image", text |-> <<"p", "n", "g">>]

UpstreamContents == {<<>>, <<BlockOk, BlockImage>>}

\* What the upstream's promise of a call is fulfilled with: content and isError.
UpstreamResult(content, isError) == [content |-> content, isError |-> isError]

UpstreamResults ==
    {UpstreamResult(<<BlockOk, BlockImage>>, "false"),
     UpstreamResult(<<BlockOk, BlockImage>>, "true"),
     UpstreamResult(<<BlockOk, BlockImage>>, "undefined"),
     UpstreamResult(<<>>, "undefined")}

ResultIds == {UpstreamId(r) : r \in Requests} \cup {DecoratedId(r) : r \in Requests}

\* A request: upstream is what the upstream's promise was fulfilled with,
\* response the identity of the result the handler returned, tools the
\* descriptors a list request returned.
NoRequest ==
    [kind |-> "none", pc |-> "idle", name |-> <<>>,
     upstream |-> UpstreamResult(<<>>, "undefined"), response |-> NoId, tools |-> <<>>]

\* Requests are numbered as they arrive.
CanArrive(r) ==
    /\ requests[r].pc = "idle"
    /\ IF r = 1 THEN TRUE ELSE requests[r - 1].pc # "idle"

\* The list handler gone wrong: every tool gets the policy of the first one.
RECURSIVE mapToolsFirstName(_, _, _, _)
mapToolsFirstName(e, tools, i, r) ==
    IF i > Len(tools) THEN [tools |-> <<>>, engine |-> e]
    ELSE LET res == resolve(e, tools[1].name)
             tool == decorateDescription(tools[i], Deref(res.engine, res.value), ToolId(r, i))
             rest == mapToolsFirstName(res.engine, tools, i + 1, r)
         IN  [tools |-> <<tool>> \o rest.tools, engine |-> rest.engine]

\* tools.map(tool => decorateDescription(tool, resolve(tool.name))) from the
\* i-th tool on, for list request r, on engine state e.
RECURSIVE mapTools(_, _, _, _)
mapTools(e, tools, i, r) ==
    IF i > Len(tools) THEN [tools |-> <<>>, engine |-> e]
    ELSE LET res == resolve(e, tools[i].name)
             tool == decorateDescription(tools[i], Deref(res.engine, res.value), ToolId(r, i))
             rest == mapTools(res.engine, tools, i + 1, r)
         IN  [tools |-> <<tool>> \o rest.tools, engine |-> rest.engine]

\* The tools/list handler; it runs to completion.
ListTools(r) ==
    /\ CanArrive(r)
    /\ LET out == mapTools(Engine, toolDefs, 1, r) IN
       /\ requests' = [requests EXCEPT ![r] =
              [NoRequest EXCEPT !.kind = "list", !.pc = "answered", !.tools = out.tools]]
       /\ cache' = out.engine.cache
       /\ allocs' = out.engine.allocs
       /\ scans' = out.engine.scans
    /\ UNCHANGED <<attempts, ctor, probe>>
    /\ UNCHANGED <<policies, defaultCacheControl, toolDefs, results, arrays, ret, firstRet, lastDecorate>>

\* The tools/call handler gone wrong: the policy is resolved before the
\* upstream is called.
CallRequestEager(r, name) ==
    /\ CanArrive(r)
    /\ requests' = [requests EXCEPT ![r] =
           [NoRequest EXCEPT !.kind = "call", !.pc = "awaiting", !.name = name]]
    /\ LET res == resolve(Engine, name) IN
       /\ cache' = res.engine.cache
       /\ allocs' = res.engine.allocs
       /\ scans' = res.engine.scans
    /\ UNCHANGED <<attempts, ctor, probe>>
    /\ UNCHANGED <<policies, defaultCacheControl,
                   toolDefs, results, arrays, ret, firstRet, lastDecorate>>

\* The tools/call handler up to its await: upstream.callTool is invoked.
CallRequest(r, name) ==
    /\ CanArrive(r)
    /\ requests' = [requests EXCEPT ![r] =
           [NoRequest EXCEPT !.kind = "call", !.pc = "awaiting", !.name = name]]
    /\ UNCHANGED <<attempts, ctor, probe>>
    /\ UNCHANGED <<policies, defaultCacheControl, cache, allocs, scans,
                   toolDefs, results, arrays, ret, firstRet, lastDecorate>>

\* The handler gone wrong: it decorates without looking at the length.
callToolHandlerAlways(e, h, r, name, result) ==
    LET res == resolve(e, name)
        policy == Deref(res.engine, res.value)
        invalidations ==
            resolveInvalidations(policy, IsErrorOrFalse(h.results[result].isError))
        dec == decorateResponse(h, result, invalidations, name, DecoratedId(r))
    IN  [response |-> dec.value, engine |-> res.engine, heap |-> dec.heap]

\* The handler gone wrong: a notice is built only when the name was not in
\* the cache yet.
callToolHandlerFirstOnly(e, h, r, name, result) ==
    LET res == resolve(e, name)
        policy == Deref(res.engine, res.value)
        invalidations ==
            resolveInvalidations(policy, IsErrorOrFalse(h.results[result].isError))
    IN  IF Len(invalidations) > 0 /\ e.cache[name] = Undefined
        THEN LET dec == decorateResponse(h, result, invalidations, name, DecoratedId(r))
             IN  [response |-> dec.value, engine |-> res.engine, heap |-> dec.heap]
        ELSE [response |-> result, engine |-> res.engine, heap |-> h]

\* The tools/call handler after its await, for request r whose upstream
\* result is the object `result` of heap h, on engine state e.
callToolHandler(e, h, r, name, result) ==
    LET res == resolve(e, name)
        policy == Deref(res.engine, res.value)
        invalidations ==
            resolveInvalidations(policy, IsErrorOrFalse(h.results[result].isError))
    IN  IF Len(invalidations) > 0
        THEN LET dec == decorateResponse(h, result, invalidations, name, DecoratedId(r))
             IN  [response |-> dec.value, engine |-> res.engine, heap |-> dec.heap]
        ELSE [response |-> result, engine |-> res.engine, heap |-> h]

\* The upstream's promise is fulfilled with a new result object and the
\* handler of request r continues to its return.  The continuation is a
\* microtask that runs to completion; nothing of the engine is touched
\* between the fulfilment and the continuation.
CallReturn(r, fulfilled) ==
    /\ requests[r].kind = "call"
    /\ requests[r].pc = "awaiting"
    /\ LET up == UpstreamId(r)
           h == [results |-> [results EXCEPT ![up] =
                                 [live |-> TRUE, content |-> up,
                                  isError |-> fulfilled.isError]],
                 arrays |-> [arrays EXCEPT ![up] =
                                [live |-> TRUE, blocks |-> fulfilled.content]]]
           out == callToolHandler(Engine, h, r, requests[r].name, up)
       IN  /\ requests' = [requests EXCEPT ![r].pc = "answered",
                                           ![r].upstream = fulfilled,
                                           ![r].response = out.response]
           /\ results' = out.heap.results
           /\ arrays' = out.heap.arrays
           /\ cache' = out.engine.cache
           /\ allocs' = out.engine.allocs
           /\ scans' = out.engine.scans
    /\ UNCHANGED <<attempts, ctor, probe>>
    /\ UNCHANGED <<policies, defaultCacheControl, toolDefs, ret, firstRet, lastDecorate>>

\* The rejection gone wrong: the handler catches it and resolves the policy
\* before it throws again.
CallRejectResolving(r) ==
    /\ requests[r].kind = "call"
    /\ requests[r].pc = "awaiting"
    /\ requests' = [requests EXCEPT ![r].pc = "rejected"]
    /\ LET res == resolve(Engine, requests[r].name) IN
       /\ cache' = res.engine.cache
       /\ allocs' = res.engine.allocs
       /\ scans' = res.engine.scans
    /\ UNCHANGED <<attempts, ctor, probe>>
    /\ UNCHANGED <<policies, defaultCacheControl,
                   toolDefs, results, arrays, ret, firstRet, lastDecorate>>

\* The upstream's promise is rejected: the await throws out of the handler.
CallReject(r) ==
    /\ requests[r].kind = "call"
    /\ requests[r].pc = "awaiting"
    /\ requests' = [requests EXCEPT ![r].pc = "rejected"]
    /\ UNCHANGED <<attempts, ctor, probe>>
    /\ UNCHANGED <<policies, defaultCacheControl, cache, allocs, scans,
                   toolDefs, results, arrays, ret, firstRet, lastDecorate>>

NoRet == [name |-> <<>>, value |-> Undefined, hit |-> FALSE]

NoDecorate ==
    [called |-> FALSE, input |-> NoId, output |-> NoId,
     before |-> NoResult, blocks |-> <<>>]

\* No attempt to change a returned policy: made says one was made, before is
\* what the policy held then, after that resolve was called since.
NoAttempt == [made |-> FALSE, before |-> NullPolicy, after |-> FALSE]

\* No pure function was called directly.
NoProbe == [fn |-> "none"]

InitAux ==
    /\ attempts = [n \in ToolNames |-> NoAttempt]

\* What no request has touched yet.
InitServer ==
    /\ toolDefs = UpstreamTools
    /\ requests = [r \in Requests |-> NoRequest]
    /\ results = [id \in ResultIds |-> NoResult]
    /\ arrays = [id \in ResultIds |-> NoArray]
    /\ ret = NoRet
    /\ firstRet = [n \in ToolNames |-> Undefined]
    /\ lastDecorate = NoDecorate
    /\ InitAux

\* The configurations of the attached server.
ServerRules ==
    {[match |-> PatAB, cacheControl |-> NoDirective,
      invalidates |-> List(<<PatAStar, NameB>>)],
     [match |-> PatAStar, cacheControl |-> "no-store", invalidates |-> NoList],
     [match |-> PatAStar, cacheControl |-> "immutable", invalidates |-> List(<<NameB>>)],
     [match |-> PatGlobStar, cacheControl |-> NoDirective, invalidates |-> List(<<>>)]}

\* No rule, one rule, or two different rules in either order.
ServerPolicies ==
    {<<>>} \cup {<<p>> : p \in ServerRules}
           \cup {pq \in [1..2 -> ServerRules] : pq[1] # pq[2]}

Init ==
    /\ InitEngine(ServerPolicies)
    /\ InitServer
    /\ probe = NoProbe

Next ==
    \/ \E r \in Requests : ListTools(r)
    \/ \E r \in Requests, name \in ToolNames : CallRequest(r, name)
    \/ \E r \in Requests, fulfilled \in UpstreamResults : CallReturn(r, fulfilled)
    \/ \E r \in Requests : CallReject(r)

Spec == Init /\ [][Next]_vars

\* ------------------------------------------------- the engine, used directly

\* A direct call engine.resolve(name) by the embedding program.
Resolve(name) ==
    LET r == resolve(Engine, name) IN
    /\ ctor.state = "constructed"
    /\ cache' = r.engine.cache
    /\ allocs' = r.engine.allocs
    /\ scans' = r.engine.scans
    /\ ret' = [name |-> name, value |-> r.value, hit |-> r.engine.scans = scans]
    /\ firstRet' = IF firstRet[name] = Undefined
                   THEN [firstRet EXCEPT ![name] = r.value]
                   ELSE firstRet
    /\ attempts' = IF attempts[name].made
                   THEN [attempts EXCEPT ![name].after = TRUE]
                   ELSE attempts
    /\ UNCHANGED <<policies, defaultCacheControl, toolDefs, requests, results, arrays,
                   lastDecorate, ctor, probe>>

InitResolve ==
    /\ InitEngine(SeqsUpTo(Rules, MaxRules))
    /\ InitServer
    /\ probe = NoProbe

NextEngine == \E name \in ToolNames : Resolve(name)

SpecEngine == InitResolve /\ [][NextEngine]_vars

\* -------------------------------------------- decorateResponse, used directly

\* The pattern lists and tool names decorateResponse is called with.
DecoratePatterns == {<<>>, <<NameB>>, <<PatAStar, NameB>>}
CausedByNames == {NameAB, NameB}

\* A direct call decorateResponse(input, patterns, causedBy), the k-th one;
\* input is any call result that exists, an earlier call's output included.
DecorateResponse(k, input, patterns, causedBy) ==
    /\ ~results[DecoratedId(k)].live
    /\ IF k = 1 THEN TRUE ELSE results[DecoratedId(k - 1)].live
    /\ results[input].live
    /\ LET h == [results |-> results, arrays |-> arrays]
           out == decorateResponse(h, input, patterns, causedBy, DecoratedId(k))
       IN  /\ results' = out.heap.results
           /\ arrays' = out.heap.arrays
           /\ lastDecorate' =
                  [called |-> TRUE, input |-> input, output |-> out.value,
                   before |-> results[input],
                   blocks |-> arrays[results[input].content].blocks]
    /\ UNCHANGED <<attempts, ctor, probe>>
    /\ UNCHANGED <<policies, defaultCacheControl, cache, allocs, scans,
                   toolDefs, requests, ret, firstRet>>

\* One call result the embedding program holds, of any content and flag.
InitDecorate ==
    /\ InitEngine({<<>>})
    /\ defaultCacheControl = NoDirective
    /\ toolDefs = UpstreamTools
    /\ requests = [r \in Requests |-> NoRequest]
    /\ \E content \in UpstreamContents, isError \in IsErrorValues :
           /\ results = [id \in ResultIds |->
                  IF id = UpstreamId(1)
                  THEN [live |-> TRUE, content |-> id, isError |-> isError]
                  ELSE NoResult]
           /\ arrays = [id \in ResultIds |->
                  IF id = UpstreamId(1)
                  THEN [live |-> TRUE, blocks |-> content]
                  ELSE NoArray]
    /\ ret = NoRet
    /\ firstRet = [n \in ToolNames |-> Undefined]
    /\ lastDecorate = NoDecorate
    /\ ctor = Constructed
    /\ probe = NoProbe
    /\ InitAux

NextDecorate ==
    \E k \in Requests, input \in ResultIds, patterns \in DecoratePatterns,
       causedBy \in CausedByNames : DecorateResponse(k, input, patterns, causedBy)

SpecDecorate == InitDecorate /\ [][NextDecorate]_vars

\* ------------------------------------------- writes to a returned policy

\* The object resolve returned for name, when it returned one.
Held(name) == firstRet[name]

\* What the caller's attempt finds before it writes.
Attempted(name) ==
    [attempts EXCEPT ![name] =
        IF @.made THEN @
        ELSE [made |-> TRUE, before |-> Deref(Engine, Held(name)), after |-> FALSE]]

\* policy.cacheControl = d on the returned object: a frozen object rejects the
\* write (a TypeError in strict code, no effect otherwise).
WriteField(name, d) ==
    /\ Held(name) # Undefined
    /\ Held(name).kind = "ref"
    /\ LET obj == allocs[name][Held(name).k] IN
       allocs' = IF obj.frozen THEN allocs
                 ELSE [allocs EXCEPT ![name][Held(name).k].cacheControl = d]
    /\ attempts' = Attempted(name)
    /\ UNCHANGED <<policies, defaultCacheControl, cache, scans, toolDefs, requests,
                   results, arrays, ret, firstRet, lastDecorate, ctor, probe>>

\* policy.invalidates.push(item) on the returned object's list: a frozen
\* array rejects the push.
PushInvalidates(name, item) ==
    /\ Held(name) # Undefined
    /\ Held(name).kind = "ref"
    /\ allocs[name][Held(name).k].invalidates.present
    /\ LET obj == allocs[name][Held(name).k] IN
       allocs' = IF obj.listFrozen THEN allocs
                 ELSE [allocs EXCEPT ![name][Held(name).k].invalidates =
                           List(Append(obj.invalidates.items, item))]
    /\ attempts' = Attempted(name)
    /\ UNCHANGED <<policies, defaultCacheControl, cache, scans, toolDefs, requests,
                   results, arrays, ret, firstRet, lastDecorate, ctor, probe>>

InitImmutable ==
    /\ InitEngine(ServerPolicies)
    /\ InitServer
    /\ probe = NoProbe

NextImmutable ==
    \/ \E name \in ToolNames : Resolve(name)
    \/ \E name \in ToolNames, d \in Directives : WriteField(name, d)
    \/ \E name \in ToolNames : PushInvalidates(name, NameAC)

SpecImmutable == InitImmutable /\ [][NextImmutable]_vars

\* ---------------------------------------------------------- PolicyValidator

\* The values a configuration written without type checking may hold in a
\* field: a string, undefined, a number, or an array of such values.
RawString(chars) == [type |-> "string", chars |-> chars, items |-> <<>>]
RawUndefined == [type |-> "undefined", chars |-> <<>>, items |-> <<>>]
RawNumber == [type |-> "number", chars |-> <<"4", "2">>, items |-> <<>>]
RawArray(items) == [type |-> "array", chars |-> <<>>, items |-> items]

\* !v : undefined and '' are falsy; the number 42 and every array are truthy.
Falsy(v) ==
    \/ v.type = "undefined"
    \/ v.type = "string" /\ v.chars = <<>>

\* `${v}` in a template literal.
Display(v) ==
    IF v.type = "undefined" THEN DirectiveText(NoDirective)
    ELSE IF v.type = "array" THEN Join([k \in 1..Len(v.items) |-> v.items[k].chars], <<",">>)
    ELSE v.chars

\* `${i}` for an array index.
IndexText(i) == <<"0", "1", "2", "3", "4", "5", "6", "7", "8", "9">>[i + 1]

\* VALID_DIRECTIVES.has(v)
IsValidDirective(v) ==
    /\ v.type = "string"
    /\ \E d \in Directives : v.chars = DirectiveText(d)

\* [a-zA-Z0-9_-]
SegmentChars ==
    {"a", "b", "c", "d", "e", "f", "g", "h", "i", "j", "k", "l", "m",
     "n", "o", "p", "q", "r", "s", "t", "u", "v", "w", "x", "y", "z",
     "A", "B", "C", "D", "E", "F", "G", "H", "I", "J", "K", "L", "M",
     "N", "O", "P", "Q", "R", "S", "T", "U", "V", "W", "X", "Y", "Z",
     "0", "1", "2", "3", "4", "5", "6", "7", "8", "9", "_", "-"}

\* VALID_SEGMENT gone wrong: \*+ in place of \*{1,2}.
ValidSegmentAnyStars(seg) ==
    \/ Len(seg) >= 1 /\ \A k \in 1..Len(seg) : seg[k] = "*"
    \/ Len(seg) >= 1 /\ \A k \in 1..Len(seg) : seg[k] \in SegmentChars

\* VALID_SEGMENT.test(seg), /^(\*{1,2}|[a-zA-Z0-9_-]+)$/
ValidSegment(seg) ==
    \/ seg = <<"*">>
    \/ seg = <<"*", "*">>
    \/ Len(seg) >= 1 /\ \A k \in 1..Len(seg) : seg[k] \in SegmentChars

\* The first segment the loop over p.match.split('.') rejects, 0 if none.
RECURSIVE FirstInvalidSegment(_, _)
FirstInvalidSegment(segments, k) ==
    IF k > Len(segments) THEN 0
    ELSE IF ~ValidSegment(segments[k]) THEN k
    ELSE FirstInvalidSegment(segments, k + 1)

\* The loop over invalidates gone wrong: no entry is looked at.
FirstInvalidEntryNone(items, k) == 0

\* The first entry the loop over p.invalidates rejects, 0 if none.
RECURSIVE FirstInvalidEntry(_, _)
FirstInvalidEntry(items, k) ==
    IF k > Len(items) THEN 0
    ELSE IF Falsy(items[k]) \/ items[k].type # "string" THEN k
    ELSE FirstInvalidEntry(items, k + 1)

\* The texts of the errors, in pieces.
Prefix(i, p) ==
    <<"Policy[", IndexText(i), "] (match: \"">> \o Display(p.match) \o <<"\")">>

AllowedSegments == "Allowed: alphanumeric, \"_\", \"-\", \"*\", \"**\"."
AllowedDirectives == "Allowed: \"no-store\", \"immutable\"."

MatchDetail == <<": ", "'match'", " must be a non-empty string.">>
SegmentDetail(seg) == <<": ", "invalid ", "segment", " \"">> \o seg \o <<"\". ", AllowedSegments>>
DirectiveDetail(v) ==
    <<": ", "invalid ", "cacheControl", " \"">> \o Display(v) \o <<"\". ", AllowedDirectives>>
ArrayDetail == <<": ", "'invalidates'", " must be an array.">>

\* The message of an empty entry gone wrong: the one of a non-array.
EntriesDetailSame == ArrayDetail

EntriesDetail == <<": ", "'invalidates'", " entries must be non-empty strings.">>

DefaultMessage(v) ==
    <<"Default ", "cacheControl", " \"">> \o Display(v) \o <<"\" is invalid. ", AllowedDirectives>>

NoError == [threw |-> FALSE, message |-> <<>>]
Error(message) == [threw |-> TRUE, message |-> message]


\* The body of the loop of validatePolicies gone wrong: cacheControl is
\* checked before match.
validateRuleDirectiveFirst(p, i) ==
    LET prefix == Prefix(i, p)
        segments == Split(p.match.chars)
        badSegment == FirstInvalidSegment(segments, 1)
        badEntry == FirstInvalidEntry(p.invalidates.items, 1)
    IN  IF p.cacheControl.type # "undefined" /\ ~IsValidDirective(p.cacheControl)
            THEN Error(prefix \o DirectiveDetail(p.cacheControl))
        ELSE IF Falsy(p.match) \/ p.match.type # "string"
            THEN Error(prefix \o MatchDetail)
        ELSE IF badSegment # 0
            THEN Error(prefix \o SegmentDetail(segments[badSegment]))
        ELSE IF p.invalidates.type # "undefined" /\ p.invalidates.type # "array"
            THEN Error(prefix \o ArrayDetail)
        ELSE IF p.invalidates.type = "array" /\ badEntry # 0
            THEN Error(prefix \o EntriesDetail)
        ELSE NoError

\* The body of the loop of validatePolicies for policies[i]: the first check
\* that fails throws.
validateRule(p, i) ==
    LET prefix == Prefix(i, p)
        segments == Split(p.match.chars)
        badSegment == FirstInvalidSegment(segments, 1)
        badEntry == FirstInvalidEntry(p.invalidates.items, 1)
    IN  IF Falsy(p.match) \/ p.match.type # "string"
            THEN Error(prefix \o MatchDetail)
        ELSE IF badSegment # 0
            THEN Error(prefix \o SegmentDetail(segments[badSegment]))
        ELSE IF p.cacheControl.type # "undefined" /\ ~IsValidDirective(p.cacheControl)
            THEN Error(prefix \o DirectiveDetail(p.cacheControl))
        ELSE IF p.invalidates.type # "undefined" /\ p.invalidates.type # "array"
            THEN Error(prefix \o ArrayDetail)
        ELSE IF p.invalidates.type = "array" /\ badEntry # 0
            THEN Error(prefix \o EntriesDetail)
        ELSE NoError

\* for (let i = 0; i < policies.length; i++), from the rule at position k.
RECURSIVE validateFrom(_, _)
validateFrom(rules, k) ==
    IF k > Len(rules) THEN NoError
    ELSE LET error == validateRule(rules[k], k - 1) IN
         IF error.threw THEN error ELSE validateFrom(rules, k + 1)

\* validatePolicies gone wrong: nothing is checked.
validatePoliciesNone(rules) == NoError

validatePolicies(rules) == validateFrom(rules, 1)

\* validateDefaults(defaults), on the value of defaults?.cacheControl.
validateDefaults(cacheControl) ==
    IF cacheControl.type # "undefined" /\ ~IsValidDirective(cacheControl)
    THEN Error(DefaultMessage(cacheControl))
    ELSE NoError

\* ------------------------------------------------ PolicyEngine.constructor

\* A rule as the engine reads it once validation has accepted it.
StoredDirective(v) ==
    IF IsValidDirective(v) THEN CHOOSE d \in Directives : DirectiveText(d) = v.chars
    ELSE NoDirective

StoredRule(p) ==
    [match |-> p.match.chars,
     cacheControl |-> StoredDirective(p.cacheControl),
     invalidates |->
         IF p.invalidates.type = "array"
         THEN List([k \in 1..Len(p.invalidates.items) |-> p.invalidates.items[k].chars])
         ELSE NoList]

\* new PolicyEngine(policies, defaults): validatePolicies, validateDefaults,
\* and only then the two assignments.
Construct ==
    /\ ctor.state = "new"
    /\ LET rulesError == validatePolicies(ctor.policies)
           error == IF rulesError.threw THEN rulesError
                    ELSE validateDefaults(ctor.defaults)
       IN  IF error.threw
           THEN /\ ctor' = [ctor EXCEPT !.state = "threw", !.message = error.message]
                /\ UNCHANGED <<policies, defaultCacheControl>>
           ELSE /\ ctor' = [ctor EXCEPT !.state = "constructed"]
                /\ policies' = [k \in 1..Len(ctor.policies) |-> StoredRule(ctor.policies[k])]
                /\ defaultCacheControl' = StoredDirective(ctor.defaults)
    /\ UNCHANGED <<cache, allocs, scans, toolDefs, requests, results, arrays,
                   ret, firstRet, lastDecorate, attempts, probe>>

\* The arguments of the constructor: what a caller may write in the fields
\* of a rule, and in defaults.cacheControl.
BadSegmentPattern == <<"a", ".", "@">>
BadDirective == <<"m", "a", "x", "-", "a", "g", "e", "=", "3", "0", "0">>

RawMatches ==
    {RawString(PatAB), RawString(<<>>), RawString(BadSegmentPattern), RawNumber}

RawDirectives == {RawUndefined, RawString(DirectiveText("no-store")), RawString(BadDirective)}

RawInvalidates ==
    {RawUndefined, RawString(PatAStar), RawArray(<<>>),
     RawArray(<<RawString(PatAStar)>>),
     RawArray(<<RawString(PatAStar), RawString(<<>>)>>)}

RawRules == [match : RawMatches, cacheControl : RawDirectives, invalidates : RawInvalidates]

RawDefaults == {RawUndefined, RawString(DirectiveText("immutable")), RawString(BadDirective)}

\* No rule, no default, no cache entry, no request.
InitEmpty ==
    /\ policies = <<>>
    /\ defaultCacheControl = NoDirective
    /\ cache = [n \in ToolNames |-> Undefined]
    /\ allocs = [n \in ToolNames |-> <<>>]
    /\ scans = [n \in ToolNames |-> 0]
    /\ InitServer

\* Before the constructor runs there is no engine.
InitNoEngine ==
    /\ InitEmpty
    /\ probe = NoProbe

InitConstruct ==
    /\ InitNoEngine
    /\ ctor \in [state : {"new"}, policies : SeqsUpTo(RawRules, MaxRawRules),
                 defaults : RawDefaults, message : {<<>>}]

NextConstruct ==
    \/ Construct
    \/ \E name \in ToolNames : Resolve(name)

SpecConstruct == InitConstruct /\ [][NextConstruct]_vars


\* ----------------------------------------------- the grammar of patterns

\* The characters patterns are written with: letters of both cases, a
\* digit, '_', '-', the star, the dot, and '@', which no segment allows.
PatternAlphabet == {"a", "Z", "1", "_", "-", "*", ".", "@"}

\* Every string over the alphabet S of at most n characters.
Strings(S, n) == UNION {[1..k -> S] : k \in 0..n}

\* A rule with nothing but a pattern.
PatternRule(s) ==
    [match |-> RawString(s), cacheControl |-> RawUndefined, invalidates |-> RawUndefined]

\* new PolicyEngine([{ match: s }]) for every string s.
InitGrammar ==
    /\ InitNoEngine
    /\ ctor \in [state : {"new"},
                 policies : {<<PatternRule(s)>> : s \in Strings(PatternAlphabet, MaxPatternLen)},
                 defaults : {RawUndefined}, message : {<<>>}]

SpecGrammar == InitGrammar /\ [][NextConstruct]_vars


\* --------------------------------------------------- matchGlob, used directly

\* The segments patterns and names are written from: two words, the two
\* wildcards, and the empty segment of a doubled dot.
PatternSegments == {<<"a">>, <<"b">>, <<"*">>, <<"*", "*">>, <<>>}
NameSegments == {<<"a">>, <<"b">>, <<>>}

\* The strings of one to n segments of S, written with dots.
Dotted(S, n) == {Join(segs, <<".">>) : segs \in UNION {[1..k -> S] : k \in 1..n}}

\* matchGlob(pattern, name), called once on the arguments drawn.
MatchGlob ==
    /\ probe.fn = "none"
    /\ probe' = [probe EXCEPT !.fn = "matchGlob",
                              !.result = matchGlob(probe.pattern, probe.name)]
    /\ UNCHANGED <<policies, defaultCacheControl, cache, allocs, scans, ctor,
                   toolDefs, requests, results, arrays, ret, firstRet, lastDecorate,
                   attempts>>

InitMatch ==
    /\ InitEmpty
    /\ ctor = Constructed
    /\ probe \in [fn : {"none"}, pattern : Dotted(PatternSegments, MaxSegments),
                  name : Dotted(NameSegments, MaxSegments), result : {FALSE}]

NextMatch == MatchGlob

SpecMatch == InitMatch /\ [][NextMatch]_vars


\* ---------------------------------------- decorateDescription, used directly

\* The pieces descriptions are written from: a word character, a space, the
\* closing bracket, a digit, the literal '[Cache-Control:', and ' no-store]',
\* which makes an annotation of it.
DescriptionParts ==
    {<<"G">>, <<" ">>, <<"]">>, <<"1">>, CacheControlLiteral,
     <<" ">> \o DirectiveText("no-store") \o <<"]">>}

\* The descriptions of one tool: missing, or up to n pieces in a row.
Descriptions(n) ==
    {NoDescription} \cup
    {Description(Join(parts, <<>>)) :
        parts \in UNION {[1..k -> DescriptionParts] : k \in 0..n}}

\* The policies decorateDescription is called with: null, one per directive,
\* and one that has invalidations only.
DescribePolicies ==
    {NullPolicy, Fields(Policy("no-store", NoList)), Fields(Policy("immutable", NoList)),
     Fields(Policy(NoDirective, List(<<NameB>>)))}

\* decorateDescription(tool, policy): the first call on the tool drawn, the
\* second on what the first returned.
DecorateDescription(policy) ==
    /\ probe.fn = "decorateDescription"
    /\ Len(probe.out) < 2
    /\ LET k == Len(probe.out)
           input == IF k = 0 THEN probe.tool ELSE probe.out[k]
       IN  probe' = [probe EXCEPT
                        !.policies = Append(@, policy),
                        !.out = Append(@, decorateDescription(input, policy, ToolId(k + 1, 1)))]
    /\ UNCHANGED <<policies, defaultCacheControl, cache, allocs, scans, ctor,
                   toolDefs, requests, results, arrays, ret, firstRet, lastDecorate,
                   attempts>>

InitDescribe ==
    /\ InitEmpty
    /\ ctor = Constructed
    /\ probe \in [fn : {"decorateDescription"},
                  tool : {ToolDef(ToolId(0, 1), NameAB, d, "schema1") :
                             d \in Descriptions(MaxParts)},
                  policies : {<<>>}, out : {<<>>}]

NextDescribe == \E policy \in DescribePolicies : DecorateDescription(policy)

SpecDescribe == InitDescribe /\ [][NextDescribe]_vars

\* ------------------------------------- the caller's array after construction

\* How many writes to rule records and how many changes of its array the
\* caller makes after the constructor returned.
MaxWrites == 1
MaxChanges == 1

\* The configurations passed to the constructor here, and a rule the caller
\* makes afterwards.
IsolationPolicies ==
    {<<[match |-> PatAB, cacheControl |-> NoDirective,
        invalidates |-> List(<<NameB>>)]>>,
     <<[match |-> PatAStar, cacheControl |-> "no-store", invalidates |-> NoList],
       [match |-> PatGlobStar, cacheControl |-> NoDirective, invalidates |-> List(<<>>)]>>}

NewRule == [match |-> PatGlobStar, cacheControl |-> "immutable", invalidates |-> NoList]

\* Rule records are objects: an array holds references to them.  The objects
\* here are the rules passed, at most two, and the rule made afterwards.
RuleObjects == 1..3

\* The rules an array of references ids holds, given what the objects hold.
RulesOf(ids, objects) == [i \in 1..Len(ids) |-> objects[ids[i]]]

\* The constructor gone wrong: this.policies = policies, the engine's array
\* is the caller's.
OwnArrayAliased(own, passed) == passed

\* this.policies = Object.freeze([...policies]): the engine's array is a copy
\* of the caller's made in the constructor, so it holds what it held then
\* whatever the caller's array holds now.
OwnArray(own, passed) == own

\* What the caller can do to its array: push a rule, shift one out, replace
\* the first entry, reverse the order.
ArrayChanges == {"push", "shift", "replace", "reverse"}

ChangedArray(passed, new, change) ==
    IF change = "push" THEN Append(passed, new)
    ELSE IF change = "shift" THEN Tail(passed)
    ELSE IF change = "replace" THEN [passed EXCEPT ![1] = new]
    ELSE [i \in 1..Len(passed) |-> passed[Len(passed) + 1 - i]]

\* The caller changes the array it passed to the constructor.
ChangeArray(change) ==
    /\ ctor.state = "constructed"
    /\ ctor.changes < MaxChanges
    /\ change = "push" \/ ctor.passed # <<>>
    /\ LET next == ChangedArray(ctor.passed, Len(ctor.objects), change) IN
       ctor' = [ctor EXCEPT !.passed = next,
                            !.own = OwnArray(ctor.own, next),
                            !.changes = @ + 1]
    /\ policies' = RulesOf(ctor'.own, ctor.objects)
    /\ UNCHANGED <<defaultCacheControl, cache, allocs, scans, toolDefs, requests,
                   results, arrays, ret, firstRet, lastDecorate, attempts, probe>>

\* What the caller can write to a rule record: its pattern, its directive,
\* its invalidation list.
RuleWrites == {"match", "cacheControl", "invalidates"}

Written(rule, field) ==
    IF field = "match" THEN [rule EXCEPT !.match = PatGlobStar]
    ELSE IF field = "cacheControl" THEN [rule EXCEPT !.cacheControl = "immutable"]
    ELSE [rule EXCEPT !.invalidates = List(<<NameAC>>)]

\* The caller writes to the rule record k.  The records are not frozen and
\* the engine's array holds the same objects, so the engine's rules are what
\* the objects hold now.  before keeps the names resolved before the first
\* write.
WriteRule(k, field) ==
    /\ ctor.state = "constructed"
    /\ ctor.writes < MaxWrites
    /\ k \in 1..Len(ctor.objects)
    /\ ctor' = [ctor EXCEPT !.objects[k] = Written(@, field),
                            !.writes = @ + 1,
                            !.before = IF ctor.writes = 0
                                       THEN {n \in ToolNames : cache[n] # Undefined}
                                       ELSE @]
    /\ policies' = RulesOf(ctor.own, ctor'.objects)
    /\ UNCHANGED <<defaultCacheControl, cache, allocs, scans, toolDefs, requests,
                   results, arrays, ret, firstRet, lastDecorate, attempts, probe>>

\* The constructor returned: the engine's array is a copy of the caller's,
\* validated holds the rules as they were validated.
InitIsolation ==
    /\ policies \in IsolationPolicies
    /\ defaultCacheControl \in Directives \cup {NoDirective}
    /\ cache = [n \in ToolNames |-> Undefined]
    /\ allocs = [n \in ToolNames |-> <<>>]
    /\ scans = [n \in ToolNames |-> 0]
    /\ ctor = [state |-> "constructed",
               objects |-> Append(policies, NewRule),
               passed |-> [i \in 1..Len(policies) |-> i],
               own |-> [i \in 1..Len(policies) |-> i],
               validated |-> policies,
               writes |-> 0,
               changes |-> 0,
               before |-> {}]
    /\ InitServer
    /\ probe = NoProbe

NextIsolation ==
    \/ \E name \in ToolNames : Resolve(name)
    \/ \E change \in ArrayChanges : ChangeArray(change)
    \/ \E k \in RuleObjects, field \in RuleWrites : WriteRule(k, field)

SpecIsolation == InitIsolation /\ [][NextIsolation]_vars

\* ================================================================== claims

\* The tools/call requests that were answered with a result.
AnsweredCalls ==
    {r \in Requests : requests[r].kind = "call" /\ requests[r].pc = "answered"}

\* The content blocks of the result request r was answered with.
ResponseBlocks(r) == arrays[results[requests[r].response].content].blocks

\* The policy the engine holds for a name it has resolved.
CachedPolicy(name) == Deref(Engine, cache[name])

HasInvalidations(name) ==
    ~CachedPolicy(name).isNull /\ CachedPolicy(name).invalidates.present

IsNotice(block) ==
    block.type = "text" /\ Len(block.text) > 0 /\ block.text[1] = NoticePrefix[1]

\* The response of r is the very object the upstream made, as the upstream
\* made it.
UpstreamUnchanged(r) ==
    /\ requests[r].response = UpstreamId(r)
    /\ results[UpstreamId(r)] =
           [live |-> TRUE, content |-> UpstreamId(r),
            isError |-> requests[r].upstream.isError]
    /\ arrays[UpstreamId(r)] = [live |-> TRUE, blocks |-> requests[r].upstream.content]

\* C1: a tools/call whose upstream result has isError true is answered with
\* the upstream result unchanged, without a notice block, whatever the
\* invalidation list of the tool's resolved policy, under any interleaving.
C1_FailedCallGuard ==
    \A r \in AnsweredCalls :
        requests[r].upstream.isError = "true" =>
            /\ UpstreamUnchanged(r)
            /\ \A i \in 1..Len(ResponseBlocks(r)) : ~IsNotice(ResponseBlocks(r)[i])

\* A failed call of a tool whose policy has an invalidation list was answered
\* while another call was in flight.
C1_Witness ==
    \E r \in AnsweredCalls, q \in Requests :
        /\ requests[r].upstream.isError = "true"
        /\ HasInvalidations(requests[r].name)
        /\ requests[q].pc = "awaiting"

\* The text of the notice for a list of one or two patterns, written out.
ExpectedNoticeText(patterns, name) ==
    <<"[System: Cache invalidated for ">>
    \o (IF Len(patterns) = 1 THEN patterns[1]
        ELSE patterns[1] \o <<",", " ">> \o patterns[2])
    \o <<" -- caused by ">> \o name \o <<"]">>

\* C2: a tools/call that did not fail and whose tool's resolved policy has an
\* invalidation list is answered with one text notice block at index 0, that
\* names the patterns joined with ', ' in declared order and the tool as the
\* cause, followed by every upstream block in order (length + 1).
C2_NoticePrepended ==
    \A r \in AnsweredCalls :
        (requests[r].upstream.isError # "true" /\ HasInvalidations(requests[r].name)) =>
            LET blocks == ResponseBlocks(r)
                content == requests[r].upstream.content
                patterns == CachedPolicy(requests[r].name).invalidates.items
            IN  /\ Len(blocks) = Len(content) + 1
                /\ blocks[1] =
                       [type |-> "text",
                        text |-> ExpectedNoticeText(patterns, requests[r].name)]
                /\ \A i \in 1..Len(content) : blocks[i + 1] = content[i]

\* A successful call with two upstream blocks and a two-pattern list was
\* answered.
C2_Witness ==
    \E r \in AnsweredCalls :
        /\ requests[r].upstream.isError # "true"
        /\ HasInvalidations(requests[r].name)
        /\ Len(CachedPolicy(requests[r].name).invalidates.items) = 2
        /\ Len(requests[r].upstream.content) = 2

\* C3: a tools/call whose tool resolves to no policy, or to a policy without
\* an invalidation list, is answered with the upstream result unchanged,
\* failed or not, and decorateResponse was not invoked for it.
C3_NoListPassthrough ==
    \A r \in AnsweredCalls :
        ~HasInvalidations(requests[r].name) =>
            /\ UpstreamUnchanged(r)
            /\ ~results[DecoratedId(r)].live

\* Answered: a successful call of a tool with a directive but no list, and a
\* call of a tool without any policy.
C3_Witness ==
    /\ \E r \in AnsweredCalls :
           /\ requests[r].upstream.isError = "false"
           /\ ~CachedPolicy(requests[r].name).isNull
           /\ ~CachedPolicy(requests[r].name).invalidates.present
    /\ \E r \in AnsweredCalls : cache[requests[r].name] = Null

\* C4: decorateResponse leaves its input as it was - the input result and its
\* content array hold what they held before the call - and the returned
\* result carries the input's isError.
C4_InputNotMutated ==
    lastDecorate.called =>
        /\ results[lastDecorate.input] = lastDecorate.before
        /\ arrays[lastDecorate.before.content].blocks = lastDecorate.blocks
        /\ results[lastDecorate.output].isError = lastDecorate.before.isError

\* decorateResponse was called on a failed result that holds two blocks.
C4_Witness ==
    /\ lastDecorate.called
    /\ lastDecorate.before.isError = "true"
    /\ Len(lastDecorate.blocks) = 2

\* The rules whose pattern matches a name, and the first of them.
MatchingRules(name) == {i \in 1..Len(policies) : matchGlob(policies[i].match, name)}

FirstMatch(name) ==
    CHOOSE i \in MatchingRules(name) : \A j \in MatchingRules(name) : i <= j

\* What one rule alone decides, with the default behind it.
RuleOutcome(rule) ==
    LET directive == IF rule.cacheControl = NoDirective
                     THEN defaultCacheControl
                     ELSE rule.cacheControl
        list == IF rule.invalidates.present /\ rule.invalidates.items # <<>>
                THEN rule.invalidates
                ELSE NoList
    IN  IF directive = NoDirective /\ list = NoList
        THEN NullPolicy
        ELSE [isNull |-> FALSE, cacheControl |-> directive, invalidates |-> list]

\* The fields of what the last direct resolve returned.
Returned == Deref(Engine, ret.value)

\* C5: resolve(name) is decided by the lowest-index rule whose pattern
\* matches the name alone; later matching rules are ignored, also when the
\* first matching rule yields no policy.
C5_FirstMatchWins ==
    (ret.name # <<>> /\ MatchingRules(ret.name) # {}) =>
        Returned = RuleOutcome(policies[FirstMatch(ret.name)])

\* resolve returned null for a name whose first matching rule yields nothing
\* while a later matching rule would yield a policy.
C5_Witness ==
    /\ ret.name # <<>>
    /\ ret.value = Null
    /\ \E j \in MatchingRules(ret.name) :
           /\ j > FirstMatch(ret.name)
           /\ RuleOutcome(policies[j]) # NullPolicy

\* C6: the directive of a resolved policy is the first matching rule's when
\* it has one and the default otherwise; when no rule matches, the result is
\* a policy of the default directive only if one is configured, else null.
C6_DirectiveFallback ==
    ret.name # <<>> =>
        IF MatchingRules(ret.name) # {}
        THEN LET rule == policies[FirstMatch(ret.name)] IN
             ret.value # Null =>
                 Returned.cacheControl =
                     (IF rule.cacheControl # NoDirective
                      THEN rule.cacheControl
                      ELSE defaultCacheControl)
        ELSE IF defaultCacheControl # NoDirective
             THEN /\ ret.value # Null
                  /\ Returned.cacheControl = defaultCacheControl
                  /\ Returned.invalidates = NoList
             ELSE ret.value = Null

\* resolve returned a policy for a name whose first matching rule has a list
\* and no directive, with a default directive configured.
C6_Witness ==
    /\ ret.name # <<>>
    /\ MatchingRules(ret.name) # {}
    /\ policies[FirstMatch(ret.name)].cacheControl = NoDirective
    /\ policies[FirstMatch(ret.name)].invalidates.present
    /\ defaultCacheControl # NoDirective
    /\ ret.value # Null

\* C7: every policy object resolve created has a directive or an invalidation
\* list, and a list it has is not empty.
C7_NoEmptyPolicy ==
    \A n \in ToolNames : \A k \in 1..Len(allocs[n]) :
        LET p == allocs[n][k] IN
        /\ ~p.isNull
        /\ p.cacheControl # NoDirective \/ p.invalidates.present
        /\ p.invalidates.present => Len(p.invalidates.items) > 0

\* A name whose first matching rule declares an empty list was resolved to a
\* policy of the directive alone.
C7_Witness ==
    /\ ret.name # <<>>
    /\ MatchingRules(ret.name) # {}
    /\ policies[FirstMatch(ret.name)].invalidates = List(<<>>)
    /\ ret.value # Null
    /\ ~Returned.invalidates.present

\* C8: every call of resolve after the first for a name returns the very
\* outcome the first returned, and the rules are scanned at most once per
\* name, also when the outcome is null.
C8_CacheHit ==
    /\ ret.name # <<>> => ret.value = firstRet[ret.name]
    /\ \A n \in ToolNames : scans[n] <= 1

\* A repeated resolve of a name without policy was served from the cache.
C8_Witness ==
    /\ ret.hit
    /\ ret.value = Null

\* C9: every cache entry, and every value resolve returns, equals the
\* uncached first-match resolution of its name.
C9_CacheTransparent ==
    /\ \A n \in ToolNames :
           cache[n] # Undefined => Deref(Engine, cache[n]) = Fields(resolveUncached(n))
    /\ ret.name # <<>> => Returned = Fields(resolveUncached(ret.name))

\* A cached answer was returned while the cache holds a different outcome for
\* another name.
C9_Witness ==
    /\ ret.hit
    /\ \E n \in ToolNames :
           /\ n # ret.name
           /\ cache[n] # Undefined
           /\ Deref(Engine, cache[n]) # Returned

\* C10: over tools/list and tools/call requests, a name in the cache stays in
\* the cache with the outcome it was stored with.
C10_CacheOnlyGrows ==
    [][\A n \in ToolNames :
           cache[n] # Undefined =>
               /\ cache'[n] = cache[n]
               /\ Deref(Engine', cache'[n]) = Deref(Engine, cache[n])]_vars

\* Two calls of different tools were answered and the cache holds both names.
C10_Witness ==
    /\ requests[1].kind = "call" /\ requests[1].pc = "answered"
    /\ requests[2].kind = "call" /\ requests[2].pc = "answered"
    /\ requests[1].name # requests[2].name
    /\ cache[requests[1].name] # Undefined
    /\ cache[requests[2].name] # Undefined


\* C11: after a caller tried to change a field of a returned policy, or to
\* push onto its invalidation list, a later resolve of the same name returns
\* the directive and the invalidation list the policy had before the attempt.
C11_ResolvedPolicyImmutable ==
    \A n \in ToolNames :
        (attempts[n].after /\ ret.name = n) =>
            /\ Returned.cacheControl = attempts[n].before.cacheControl
            /\ Returned.invalidates = attempts[n].before.invalidates

\* A policy with an invalidation list was returned, the caller tried to
\* change it, and the name was resolved again.
C11_Witness ==
    /\ ret.name # <<>>
    /\ attempts[ret.name].after
    /\ attempts[ret.name].before.invalidates.present
    /\ ret.value.kind = "ref"


\* The checks of a rule, by their number in the order of the specification:
\* 1 the pattern is a non-empty string, 2 its segments follow the grammar,
\* 3 the directive is one of the two values, 4 the invalidation list is an
\* array, 5 its entries are non-empty strings.
IsNonEmptyString(v) == v.type = "string" /\ Len(v.chars) >= 1

\* Every dot-separated segment of s is '*', '**', or a non-empty run of
\* letters, digits, '_' and '-', said character by character.
WellFormedPattern(s) ==
    /\ Len(s) >= 1
    /\ s[1] # "." /\ s[Len(s)] # "."
    /\ \A k \in 1..Len(s) : s[k] \in SegmentChars \cup {"*", "."}
    /\ \A k \in 1..(Len(s) - 1) : ~(s[k] = "." /\ s[k + 1] = ".")
    /\ \A k \in 1..(Len(s) - 2) : ~(s[k] = "*" /\ s[k + 1] = "*" /\ s[k + 2] = "*")
    /\ \A k \in 1..Len(s) :
           s[k] = "*" =>
               /\ IF k = 1 THEN TRUE ELSE s[k - 1] \in {".", "*"}
               /\ IF k = Len(s) THEN TRUE ELSE s[k + 1] \in {".", "*"}

FailedChecks(p) ==
    {c \in 1..5 :
        \/ c = 1 /\ ~IsNonEmptyString(p.match)
        \/ c = 2 /\ IsNonEmptyString(p.match) /\ ~WellFormedPattern(p.match.chars)
        \/ c = 3 /\ p.cacheControl.type # "undefined"
                 /\ p.cacheControl \notin {RawString(DirectiveText(d)) : d \in Directives}
        \/ c = 4 /\ p.invalidates.type \notin {"undefined", "array"}
        \/ c = 5 /\ p.invalidates.type = "array"
                 /\ \E k \in 1..Len(p.invalidates.items) :
                        ~IsNonEmptyString(p.invalidates.items[k])}

Min(S) == CHOOSE x \in S : \A y \in S : x <= y

\* The positions of the rules of the constructor's argument that fail a check.
Offending == {k \in 1..Len(ctor.policies) : FailedChecks(ctor.policies[k]) # {}}

DefaultValid ==
    \/ ctor.defaults.type = "undefined"
    \/ ctor.defaults \in {RawString(DirectiveText(d)) : d \in Directives}

\* C12: the constructor completes exactly when every rule and the default
\* pass the checks; when it throws no rule is stored and nothing is ever
\* resolved, so resolve only runs over rules that passed.
C12_EagerValidation ==
    /\ ctor.state = "constructed" => Offending = {} /\ DefaultValid
    /\ ctor.state = "threw" => ~(Offending = {} /\ DefaultValid)
    /\ ctor.state # "constructed" =>
           /\ policies = <<>>
           /\ ret = NoRet
           /\ \A n \in ToolNames : cache[n] = Undefined
    /\ ret # NoRet => ctor.state = "constructed" /\ Offending = {}

\* The constructor threw on the second rule, after the first one had passed
\* every check: nothing was stored.
C12_Witness ==
    /\ ctor.state = "threw"
    /\ Offending = {2}
    /\ policies = <<>>

\* The parts of a thrown message.
HasToken(message, t) == \E k \in 1..Len(message) : message[k] = t

CheckOf(message) ==
    IF HasToken(message, " must be a non-empty string.") THEN 1
    ELSE IF HasToken(message, "segment") THEN 2
    ELSE IF HasToken(message, "cacheControl") THEN 3
    ELSE IF HasToken(message, " must be an array.") THEN 4
    ELSE IF HasToken(message, " entries must be non-empty strings.") THEN 5
    ELSE 0

\* C13: the one error thrown belongs to the lowest-index offending rule and to
\* the first check that rule fails, in the order pattern, segments, directive,
\* array, entries; the default's error is thrown only when every rule is valid.
C13_FailFastOrdered ==
    ctor.state = "threw" =>
        IF Offending = {}
        THEN ctor.message[1] = "Default "
        ELSE /\ ctor.message[1] = "Policy["
             /\ ctor.message[2] = IndexText(Min(Offending) - 1)
             /\ CheckOf(ctor.message) = Min(FailedChecks(ctor.policies[Min(Offending)]))

\* Two rules and the default are all invalid, and the first rule fails three
\* checks at once.
C13_Witness ==
    /\ ctor.state = "threw"
    /\ Offending = {1, 2}
    /\ ~DefaultValid
    /\ FailedChecks(ctor.policies[1]) = {2, 3, 5}

\* What a message says after the rule's position and pattern.
DetailFrom(message, k) ==
    IF message[k] = ": " THEN SubSeq(message, k, Len(message)) ELSE <<>>

DetailOf(message) ==
    LET starts == {k \in 1..Len(message) : message[k] = ": "} IN
    IF starts = {} THEN <<>> ELSE DetailFrom(message, Min(starts))

FieldOf(c) ==
    IF c = 1 THEN "'match'"
    ELSE IF c = 2 THEN "segment"
    ELSE IF c = 3 THEN "cacheControl"
    ELSE "'invalidates'"

\* The four misconfigurations the specification names.
NamedChecks == {1, 3, 4, 5}

\* What the rules that fail the check c first are rejected with.
DetailsOfCheck ==
    [c \in NamedChecks |->
        {DetailOf(validateRule(q, 0).message) :
            q \in {r \in RawRules : FailedChecks(r) # {} /\ Min(FailedChecks(r)) = c}}]

\* C14: a rule's error starts with the rule's position and declared pattern
\* and names the field at fault, and what it says after that differs from
\* what any rule failing another of the named checks (empty pattern, invalid
\* directive, non-array list, empty entry) is rejected with.
C14_ErrorsLocatedAndDistinct ==
    (ctor.state = "threw" /\ Offending # {}) =>
        LET k == Min(Offending)
            p == ctor.policies[k]
            c == Min(FailedChecks(p))
            start == <<"Policy[", IndexText(k - 1), "] (match: \"">>
                         \o Display(p.match) \o <<"\")">>
        IN  /\ Len(ctor.message) > Len(start)
            /\ SubSeq(ctor.message, 1, Len(start)) = start
            /\ HasToken(DetailOf(ctor.message), FieldOf(c))
            /\ c \in NamedChecks =>
                   \A other \in NamedChecks \ {c} :
                       DetailOf(ctor.message) \notin DetailsOfCheck[other]

\* The second rule was rejected for an empty string in its invalidation list.
C14_Witness ==
    /\ ctor.state = "threw"
    /\ Offending = {2}
    /\ FailedChecks(ctor.policies[2]) = {5}


\* The rules of an engine whose constructor returned, as they were passed.
AcceptedRules ==
    IF ctor.state = "constructed"
    THEN {ctor.policies[k] : k \in 1..Len(ctor.policies)}
    ELSE {}

\* C16 as the specification states it: the invalidation list of an accepted
\* rule, if present, is a non-empty sequence of non-empty strings.
C16_AcceptedListNonEmpty ==
    /\ \A p \in AcceptedRules :
           p.invalidates.type # "undefined" =>
               /\ p.invalidates.type = "array"
               /\ Len(p.invalidates.items) >= 1
               /\ \A k \in 1..Len(p.invalidates.items) :
                      IsNonEmptyString(p.invalidates.items[k])
    /\ \A k \in 1..Len(policies) :
           policies[k].invalidates.present =>
               /\ Len(policies[k].invalidates.items) >= 1
               /\ \A j \in 1..Len(policies[k].invalidates.items) :
                      Len(policies[k].invalidates.items[j]) >= 1

\* C16, amended: the invalidation list of an accepted rule, if present, is an
\* array, possibly empty, whose entries are all non-empty strings.
C16_AcceptedListEntries ==
    /\ \A p \in AcceptedRules :
           p.invalidates.type # "undefined" =>
               /\ p.invalidates.type = "array"
               /\ \A k \in 1..Len(p.invalidates.items) :
                      IsNonEmptyString(p.invalidates.items[k])
    /\ \A k \in 1..Len(policies) :
           policies[k].invalidates.present =>
               \A j \in 1..Len(policies[k].invalidates.items) :
                   Len(policies[k].invalidates.items[j]) >= 1

\* An engine was constructed from a rule with an empty invalidation list and
\* a rule with a list of one pattern.
C16_Witness ==
    /\ ctor.state = "constructed"
    /\ Len(policies) = 2
    /\ policies[1].invalidates = List(<<>>)
    /\ policies[2].invalidates = List(<<PatAStar>>)


\* The pattern of the one rule the constructor was called with.
DeclaredPattern == ctor.policies[1].match.chars

\* C15: a pattern is accepted exactly when it is non-empty and each of its
\* dot-separated segments is '*', '**', or a non-empty run of letters, digits,
\* '_' and '-'; an empty segment, three stars, or a star next to another
\* character in a segment is rejected.
C15_PatternGrammar ==
    /\ ctor.state = "constructed" => WellFormedPattern(DeclaredPattern)
    /\ ctor.state = "threw" =>
           /\ ~WellFormedPattern(DeclaredPattern)
           /\ CheckOf(ctor.message) = IF DeclaredPattern = <<>> THEN 1 ELSE 2
    /\ (ctor.state # "new" /\ DeclaredPattern \in
            {<<".", "a">>, <<"a", ".">>, <<".", ".">>, <<"*", "*", "*">>,
             <<"a", "*">>, <<"*", "a">>, <<"a", ".", "*", "-">>})
           => ctor.state = "threw"

\* A pattern of three stars was rejected.
C15_Witness ==
    /\ ctor.state = "threw"
    /\ DeclaredPattern = <<"*", "*", "*">>


\* The dot-segments of the arguments of the call of matchGlob.
P == Split(probe.pattern)
N == Split(probe.name)

Star == <<"*">>
GlobStar == <<"*", "*">>

Called == probe.fn = "matchGlob"

\* C17: a pattern without a wildcard segment matches a name exactly when both
\* have the same number of segments and equal segments at every position.
C17_LiteralMatching ==
    (Called /\ \A i \in 1..Len(P) : P[i] \notin {Star, GlobStar}) =>
        (probe.result <=> (Len(P) = Len(N) /\ \A i \in 1..Len(P) : P[i] = N[i]))

\* A literal pattern of two segments was matched against a name that starts
\* with the same two segments and has a third: no match.
C17_Witness ==
    /\ Called
    /\ Len(P) = 2 /\ Len(N) = 3
    /\ \A i \in 1..2 : P[i] \notin {Star, GlobStar} /\ P[i] = N[i]
    /\ ~probe.result

\* The ways to cut the name's segments into consecutive groups, one per
\* pattern segment: ends[i] is the position of the last segment of group i.
Cuts(pp, np) ==
    {ends \in [1..Len(pp) -> 0..Len(np)] :
        /\ ends[Len(pp)] = Len(np)
        /\ \A i \in 1..(Len(pp) - 1) : ends[i] <= ends[i + 1]}

GroupFits(pp, np, ends, i) ==
    LET from == IF i = 1 THEN 1 ELSE ends[i - 1] + 1
        size == ends[i] - from + 1
    IN  IF pp[i] = GlobStar THEN TRUE
        ELSE IF pp[i] = Star THEN size = 1
        ELSE size = 1 /\ np[from] = pp[i]

Partitionable(pp, np) ==
    \E ends \in Cuts(pp, np) : \A i \in 1..Len(pp) : GroupFits(pp, np, ends, i)

\* C18: matchGlob holds exactly when the name's segments can be cut, in
\* order, into one group per pattern segment: one equal segment for a literal,
\* one segment for '*', any number for '**'.  So '**' matches every name,
\* 'a.**' matches 'a', and '**.a' matches the names whose last segment is a.
C18_GlobStarSemantics ==
    Called =>
        /\ probe.result <=> Partitionable(P, N)
        /\ P = <<GlobStar>> => probe.result
        /\ (P = <<<<"a">>, GlobStar>> /\ N = <<<<"a">>>>) => probe.result
        /\ P = <<GlobStar, <<"a">>>> => (probe.result <=> N[Len(N)] = <<"a">>)

\* A pattern of three segments with '**' in the middle matched a name of
\* three segments, '**' taking the middle one.
C18_Witness ==
    /\ Called
    /\ probe.result
    /\ Len(P) = 3 /\ P[2] = GlobStar /\ P[1] # GlobStar /\ P[3] # GlobStar
    /\ Len(N) = 3

\* C19: a pattern without a '**' segment matches only names with as many
\* segments as itself; 'a.*' matches the names of two segments that start
\* with a, and '*' matches every name of one segment, the empty one included.
C19_StarOneSegment ==
    (Called /\ \A i \in 1..Len(P) : P[i] # GlobStar) =>
        /\ probe.result => Len(N) = Len(P)
        /\ P = <<<<"a">>, Star>> => (probe.result <=> (Len(N) = 2 /\ N[1] = <<"a">>))
        /\ P = <<Star>> => (probe.result <=> Len(N) = 1)

\* '*' matched the empty name, whose one segment is empty.
C19_Witness ==
    /\ Called
    /\ P = <<Star>>
    /\ probe.name = <<>>
    /\ probe.result


\* C20: decorating twice with the same policy that has a directive gives the
\* description that decorating once gives.
C20_DecorationIdempotent ==
    (/\ Len(probe.out) = 2
     /\ probe.policies[1] = probe.policies[2]
     /\ ~probe.policies[1].isNull
     /\ probe.policies[1].cacheControl # NoDirective) =>
        probe.out[2].description = probe.out[1].description


\* '[Cache-Control: d]', the annotation of the directive d.
Annotation(d) == CacheControlLiteral \o <<" ">> \o DirectiveText(d) \o <<"]">>

\* How often the text holds sub, and whether it ends with it.
Occurrences(text, sub) ==
    Cardinality({k \in 1..Len(text) : HasLiteralAt(text, k, sub)})

EndsWith(text, sub) ==
    /\ Len(text) >= Len(sub)
    /\ SubSeq(text, Len(text) - Len(sub) + 1, Len(text)) = sub

Annotations(text) ==
    Occurrences(text, Annotation("no-store")) + Occurrences(text, Annotation("immutable"))

HasDirective(policy) == ~policy.isNull /\ policy.cacheControl # NoDirective

\* C21: a description without an annotation, decorated with a directive and
\* then with the other one, ends with the annotation of the second directive,
\* holds none of the first and exactly one annotation in all.
C21_DirectiveReplaced ==
    (/\ Len(probe.out) = 2
     /\ HasDirective(probe.policies[1]) /\ HasDirective(probe.policies[2])
     /\ probe.policies[1].cacheControl # probe.policies[2].cacheControl
     /\ Annotations(probe.tool.description.text) = 0) =>
        LET text == probe.out[2].description.text IN
        /\ EndsWith(text, <<" ">> \o Annotation(probe.policies[2].cacheControl))
        /\ Occurrences(text, Annotation(probe.policies[1].cacheControl)) = 0
        /\ Annotations(text) = 1

\* 'G' was decorated with no-store and the result with immutable.
C21_Witness ==
    /\ Len(probe.out) = 2
    /\ probe.tool.description = Description(<<"G">>)
    /\ probe.policies[1].cacheControl = "no-store"
    /\ probe.policies[2].cacheControl = "immutable"
    /\ probe.out[2].description.text = <<"G", " ">> \o Annotation("immutable")

\* C22: with a null policy, or one without a directive, decorateDescription
\* returns the descriptor object it was given, its description as it was.
C22_Passthrough ==
    \A k \in 1..Len(probe.out) :
        ~HasDirective(probe.policies[k]) =>
            LET input == IF k = 1 THEN probe.tool ELSE probe.out[k - 1] IN
            /\ probe.out[k].id = input.id
            /\ probe.out[k] = input

\* A policy that has only an invalidation list was applied to a descriptor
\* whose description ends with an annotation.
C22_Witness ==
    /\ Len(probe.out) = 1
    /\ probe.policies[1].invalidates.present
    /\ probe.policies[1].cacheControl = NoDirective
    /\ EndsWith(probe.tool.description.text, Annotation("no-store"))
    /\ probe.out[1].id = probe.tool.id


\* The text in front of a trailing annotation of the emitted format, a space
\* and '[Cache-Control: no-store]' or '[Cache-Control: immutable]'; the whole
\* text when it does not end with one.
WithoutEmittedSuffix(text) ==
    IF EndsWith(text, <<" ">> \o Annotation("no-store"))
    THEN SubSeq(text, 1, Len(text) - Len(Annotation("no-store")) - 1)
    ELSE IF EndsWith(text, <<" ">> \o Annotation("immutable"))
    THEN SubSeq(text, 1, Len(text) - Len(Annotation("immutable")) - 1)
    ELSE text

\* C24: decoration strips nothing but a trailing annotation of the emitted
\* format; what is in front of it, other bracketed text and further
\* whitespace included, is kept as it is in front of the new annotation.
C24_StripsOnlyEmittedFormat ==
    \A k \in 1..Len(probe.out) :
        HasDirective(probe.policies[k]) =>
            LET input == IF k = 1 THEN probe.tool ELSE probe.out[k - 1] IN
            probe.out[k].description.text =
                WithoutEmittedSuffix(input.description.text)
                    \o <<" ">> \o Annotation(probe.policies[k].cacheControl)


AnsweredLists ==
    {r \in Requests : requests[r].kind = "list" /\ requests[r].pc = "answered"}

\* The directive configured for a name: the one of the first rule that
\* matches it, else the default.
ConfiguredDirective(name) ==
    IF MatchingRules(name) # {} /\ policies[FirstMatch(name)].cacheControl # NoDirective
    THEN policies[FirstMatch(name)].cacheControl
    ELSE defaultCacheControl

\* The description a listed tool gets: the upstream's, with the annotation of
\* the configured directive in the place of what decoration strips.
ListedDescription(tool) ==
    IF ConfiguredDirective(tool.name) = NoDirective THEN tool.description
    ELSE Description(StripCacheControl(tool.description.text)
                         \o <<" ">> \o Annotation(ConfiguredDirective(tool.name)))

\* C23: a tools/list response holds the upstream's tools in their order, each
\* with its name and other fields and with the description decoration gives
\* it for the configured directive; the upstream's descriptors stay as they
\* were.
C23_ListingDecorated ==
    /\ toolDefs = UpstreamTools
    /\ \A r \in AnsweredLists :
           /\ Len(requests[r].tools) = Len(UpstreamTools)
           /\ \A i \in 1..Len(UpstreamTools) :
                  LET listed == requests[r].tools[i] IN
                  /\ listed.name = UpstreamTools[i].name
                  /\ listed.schema = UpstreamTools[i].schema
                  /\ listed.description = ListedDescription(UpstreamTools[i])
                  /\ listed.id \in {ToolId(0, i), ToolId(r, i)}
                  /\ listed.id = ToolId(0, i) => listed = UpstreamTools[i]

\* A list was answered in which the first two tools, one of them without a
\* description, got the rule's directive and the third the default.
C23_Witness ==
    \E r \in AnsweredLists :
        /\ requests[r].tools[1].description =
               Description(<<"G", "e", "t", ".", " ">> \o Annotation("no-store"))
        /\ requests[r].tools[2].description =
               Description(<<" ">> \o Annotation("no-store"))
        /\ requests[r].tools[3].description =
               Description(<<"X", " ">> \o Annotation("immutable"))
        /\ defaultCacheControl = "immutable"


EngineUntouched == cache' = cache /\ allocs' = allocs /\ scans' = scans

\* C25: a tools/call invokes the upstream once, on arrival and before the
\* engine is touched or anything is built for it; it is answered only from
\* its wait, in the step in which the upstream's result exists, and a request
\* that is over is never run again.
C25_UpstreamFirst ==
    [][\A r \in Requests :
           /\ (requests[r].pc = "idle" /\ requests'[r].kind = "call") =>
                  /\ requests'[r].pc = "awaiting"
                  /\ EngineUntouched
                  /\ results' = results /\ arrays' = arrays
           /\ (requests[r].kind = "call" /\ requests[r].pc = "awaiting") =>
                  /\ ~results[UpstreamId(r)].live
                  /\ ~results[DecoratedId(r)].live
                  /\ requests'[r].pc \in {"awaiting", "answered", "rejected"}
           /\ (requests'[r].kind = "call" /\ requests'[r].pc = "answered"
                  /\ requests[r].pc # "answered") =>
                  /\ requests[r].pc = "awaiting"
                  /\ results'[UpstreamId(r)].live
                  /\ requests'[r].response # NoId
           /\ requests[r].pc \in {"answered", "rejected"} => requests'[r] = requests[r]
      ]_vars

\* The second call was answered with a notice while the first one, for a name
\* the engine has not resolved, still waits for its upstream.
C25_Witness ==
    /\ requests[1].kind = "call" /\ requests[1].pc = "awaiting"
    /\ cache[requests[1].name] = Undefined
    /\ requests[2].kind = "call" /\ requests[2].pc = "answered"
    /\ requests[2].response = DecoratedId(2)


\* C28: when the upstream call of a tools/call rejects, the request ends
\* rejected, without a result and without a notice, and the step leaves the
\* cache and the engine's objects as they were.
C28_RejectionPropagates ==
    [][\A r \in Requests :
           (requests[r].pc = "awaiting" /\ requests'[r].pc = "rejected") =>
               /\ EngineUntouched
               /\ results' = results /\ arrays' = arrays
               /\ requests'[r].response = NoId
               /\ ~results'[UpstreamId(r)].live
               /\ ~results'[DecoratedId(r)].live
      ]_vars

\* The first call was rejected and its tool's name is still unresolved, after
\* a second call had been answered.
C28_Witness ==
    /\ requests[1].kind = "call" /\ requests[1].pc = "rejected"
    /\ cache[requests[1].name] = Undefined
    /\ requests[1].response = NoId
    /\ requests[2].kind = "call" /\ requests[2].pc = "answered"


\* An engine of the same configuration that has resolved nothing, and a heap
\* that holds nothing but the upstream's result for request r.
FreshEngine ==
    [cache |-> [n \in ToolNames |-> Undefined],
     allocs |-> [n \in ToolNames |-> <<>>],
     scans |-> [n \in ToolNames |-> 0]]

AloneHeap(r, fulfilled) ==
    [results |-> [id \in ResultIds |->
                     IF id = UpstreamId(r)
                     THEN [live |-> TRUE, content |-> id, isError |-> fulfilled.isError]
                     ELSE NoResult],
     arrays |-> [id \in ResultIds |->
                    IF id = UpstreamId(r)
                    THEN [live |-> TRUE, blocks |-> fulfilled.content]
                    ELSE NoArray]]

\* What the request r, as it is answered in this step, gets when it is the
\* only request of a server with a fresh engine.
AloneCall(r) ==
    callToolHandler(FreshEngine, AloneHeap(r, requests'[r].upstream), r,
                    requests'[r].name, UpstreamId(r))

\* C27: whatever other requests are in flight or were answered before, and
\* whatever the cache holds, a request is answered with what it gets when it
\* runs alone on a fresh engine of the same configuration.
C27_InterleavingIndependent ==
    [][\A r \in Requests :
           (requests[r].pc # "answered" /\ requests'[r].pc = "answered") =>
               IF requests'[r].kind = "list"
               THEN requests'[r].tools = mapTools(FreshEngine, UpstreamTools, 1, r).tools
               ELSE \A alone \in {AloneCall(r)} :
                        /\ requests'[r].response = alone.response
                        /\ results'[alone.response] = alone.heap.results[alone.response]
                        /\ arrays'[results'[alone.response].content] =
                               alone.heap.arrays[results'[alone.response].content]
      ]_vars

\* Two calls of the same tool were both answered with a notice, the second
\* one from the cache.
C27_Witness ==
    /\ requests[1].kind = "call" /\ requests[1].pc = "answered"
    /\ requests[2].kind = "call" /\ requests[2].pc = "answered"
    /\ requests[1].name = requests[2].name
    /\ scans[requests[1].name] = 1
    /\ requests[1].response = DecoratedId(1)
    /\ requests[2].response = DecoratedId(2)


\* The text ends with the annotation of some directive.
EndsAnnotated(text) == \E d \in Directives : EndsWith(text, Annotation(d))

Listed(tool) ==
    [name |-> tool.name, description |-> tool.description, schema |-> tool.schema]

Listing(r) == [i \in 1..Len(requests[r].tools) |-> Listed(requests[r].tools[i])]

ValidatedMatches(name) ==
    {i \in 1..Len(ctor.validated) : matchGlob(ctor.validated[i].match, name)}

ValidatedOutcome(name) ==
    IF ValidatedMatches(name) = {}
    THEN IF defaultCacheControl # NoDirective
         THEN [isNull |-> FALSE, cacheControl |-> defaultCacheControl,
               invalidates |-> NoList]
         ELSE NullPolicy
    ELSE RuleOutcome(ctor.validated[
             CHOOSE i \in ValidatedMatches(name) :
                 \A j \in ValidatedMatches(name) : i <= j])

\* C26 as stated: whatever the caller did since to the array it passed or to
\* a rule record in it, resolve returns what the rules gave when they were
\* validated.
C26_RuleSetIsolated ==
    ret.name # <<>> => Returned = ValidatedOutcome(ret.name)

\* C26, amended: changes of the caller's array never show; resolve returns for
\* a name what it returned for it first; and writes to rule records do not
\* show for the names resolved before the first of them.
C26_ArrayIsolatedRecordsShared ==
    ret.name # <<>> =>
        /\ ret.value = firstRet[ret.name]
        /\ (ctor.writes = 0 \/ ret.name \in ctor.before) =>
               Returned = ValidatedOutcome(ret.name)

\* The caller changed its array and wrote to a rule record after a name was
\* resolved; the name was resolved again, from the cache, to what the rules
\* as they are now would not give.
C26_Witness ==
    /\ ctor.changes > 0
    /\ ctor.writes > 0
    /\ ret.name \in ctor.before
    /\ ret.hit
    /\ Fields(resolveUncached(ret.name)) # Returned

====
